---- MODULE Spec2Model ----
(***************************************************************************)
(* The record store of the site: the typed array of project records of    *)
(* data/projectsData.ts and the content documents with their front-matter. *)
(* A build declares the two collections, validates them eagerly against    *)
(* their schemas and then serves them read-only through listProjects and   *)
(* listArticles.                                                           *)
(***************************************************************************)
EXTENDS Integers, Sequences, FiniteSets, TLC

VARIABLES
    input,          \* the project records as declared in the array literal
    articlesInput,  \* the content documents' front-matter as authored
    phase,          \* "init" before the load, then "loaded" or "failed"
    projectsData,   \* the exported array the consumers read
    articles,       \* the loaded article records
    error,          \* the schema-validation error of a failed load
    result,         \* the value the last list call returned
    serialized,     \* the project set written out as key/value text
    reparsed,       \* the project set read back from `serialized`
    first,          \* history: what the first call of each list operation returned
    readers,        \* per reader: what it is reading and how far it has got
    fiberTree,      \* the fiber tree of the traversal example (parent of each fiber)
    fiber,          \* performWork: the current fiber (0 is null)
    log,            \* performWork: the fibers processed so far (console.log)
    workState,      \* performWork: "idle", "running", "paused" or "done"
    saved,          \* performWork: the fiber kept by saveState (0 is none)
    pauses,         \* how many times shouldPauseWork() has returned true
    lanes,          \* a lanes bitmask: `var lanes`, the Counter fiber's lanes
    notLanes,       \* the value of ~lanes
    highest,        \* the value of lanes & ~lanes
    evaluated,      \* whether the two bitwise expressions have been evaluated
    nextTransitionLane, \* the transition lane the next transition update gets
    updates         \* history: how many setState() calls of each kind were made

fiberVars == <<fiberTree, fiber, log, workState, saved, pauses>>

laneVars == <<lanes, notLanes, highest, evaluated, nextTransitionLane, updates>>

storeVars == <<input, articlesInput, phase, projectsData, articles, error,
               result, serialized, reparsed, first, readers>>

vars == <<input, articlesInput, phase, projectsData, articles, error, result,
          serialized, reparsed, first, readers, fiberVars, laneVars>>

----------------------------------------------------------------------------
(* Bounds of the checked inputs *)

MaxProjects == 2
MaxArticles == 2
NumReaders == 2
MaxFibers == 4
MaxPauses == 1
MaxLaneBits == 8
MaxEventUpdates == 3
MaxTransitionUpdates == 17
MaxOtherUpdates == 1

Absent == "<absent>"

\* stands for a value that is not text (a number, a list, an object)
NotText == "<not-text>"
IsText(v) == v # NotText

Titles == {"A", "B"}
Descriptions == {"d1"}
Hrefs == {"https://x"}
ImgSrcs == {"/static/images/x.png"}
ArticleTitles == {"P", "Q"}

BoundedSeq(S, n) == UNION {[1..k -> S] : k \in 0..n}

----------------------------------------------------------------------------
(* interface Project *)

RequiredFieldsTitleOnly == {"title"}
RequiredFieldsWithHref == {"title", "description", "href"}
RequiredFields == {"title", "description"}
OptionalFields == {"href", "imgSrc"}
ProjectFields == RequiredFields \cup OptionalFields

\* the order in which the fields are declared by the interface
FieldOrderWithoutImgSrc == <<"title", "description", "href">>
FieldOrder == <<"title", "description", "href", "imgSrc">>

\* An object literal: only the properties that are written are own
\* properties of the object; an optional one left out stays undefined.
MkProject(t, d, h, i) ==
    LET all == [title |-> t, description |-> d, href |-> h, imgSrc |-> i]
    IN  [f \in {g \in DOMAIN all : all[g] # Absent} |-> all[f]]

\* The array literal shipped in the repository.
ShippedProjects ==
    << [title |-> "Angular Dashboard Starter",
        description |-> "A dashboard starter pack build with Angular 18, Nest.js 9, TypeScript 5",
        imgSrc |-> "/static/images/angular-dashboard-screen.png",
        href |-> "https://www.j1032.com/dashboard"],
       [title |-> "React.js Dashboard Starter",
        description |-> "ReactJS frontend and NestJS backend dashboard starter, build with React 18,  Nest.js 9, Nx monorepo, TypeScript",
        imgSrc |-> "/static/images/react-dashboard-swagger-screen.png",
        href |-> "https://github.com/j1032w/das-mono-nestjs-reactjs"] >>

\* The two records of the documented example.
ExampleProjects ==
    << [title |-> "A", description |-> "d1"],
       [title |-> "B", description |-> "d2", href |-> "https://x"] >>

\* Records at the edge of the schema: an empty title, a title that is not
\* text.
EdgeProjects ==
    { MkProject("", "d1", Absent, Absent),
      MkProject(NotText, "d1", Absent, Absent) }

\* Records that lack a required property: the title, the description (with
\* an optional property given), both (with the other optional one given).
MalformedProjects ==
    { MkProject(Absent, "d1", Absent, Absent),
      MkProject("A", Absent, "https://x", Absent),
      MkProject(Absent, Absent, Absent, "/static/images/x.png") }

\* Candidate records of an array literal, well-formed or not: every
\* combination of the optional properties on a complete record, and the
\* malformed and edge records.
ProjectInputs ==
    { MkProject(t, d, h, i) :
        t \in Titles, d \in Descriptions,
        h \in Hrefs \cup {Absent}, i \in ImgSrcs \cup {Absent} }
      \cup MalformedProjects \cup EdgeProjects

\* The required properties a record does not define.
MissingFields(rec) == RequiredFields \ DOMAIN rec

\* The properties a record defines with a value that is not a string.
MistypedFields(rec) == {f \in DOMAIN rec : ~IsText(rec[f])}

BadFields(rec) == MissingFields(rec) \cup MistypedFields(rec)

\* A record is assignable to Project when every non-optional property is
\* there and every property it defines is a string; `string` admits ''.
IsProjectNonEmptyTitle(rec) ==
    BadFields(rec) = {} /\ rec.title # ""
IsProjectPresenceOnly(rec) == MissingFields(rec) = {}
IsProject(rec) == BadFields(rec) = {}

\* const projectsData: Project[]  -- every element is a Project; the array
\* type puts no constraint on the length.
IsProjectArrayNonEmpty(recs) ==
    Len(recs) > 0 /\ \A i \in 1..Len(recs) : IsProject(recs[i])
IsProjectArrayFirstOnly(recs) == Len(recs) > 0 => IsProject(recs[1])
IsProjectArrayUniqueTitles(recs) ==
    /\ \A i \in 1..Len(recs) : IsProject(recs[i])
    /\ \A i, j \in 1..Len(recs) : recs[i].title = recs[j].title => i = j
IsProjectArray(recs) == \A i \in 1..Len(recs) : IsProject(recs[i])

----------------------------------------------------------------------------
(* Content documents *)

FrontMatterKeys ==
    {"title", "date", "lastmod", "tags", "draft", "summary", "images"}

MkArticle(t, dr) ==
    LET all == [title |-> t, date |-> "2024-08-11", lastmod |-> "2024-08-11",
                tags |-> {"react-js"}, draft |-> dr, summary |-> "s",
                images |-> << >>]
    IN  IF t = Absent THEN [f \in DOMAIN all \ {"title"} |-> all[f]] ELSE all

\* a document whose tags are not all text
MistaggedArticle == [MkArticle("P", FALSE) EXCEPT !.tags = {NotText}]

ArticleInputs ==
    { MkArticle(t, dr) : t \in ArticleTitles, dr \in BOOLEAN }
        \cup { MkArticle(Absent, FALSE), MistaggedArticle }

MissingKeys(doc) == FrontMatterKeys \ DOMAIN doc

\* tags is a set of text labels, title is text
MistypedKeys(doc) ==
    {k \in DOMAIN doc \cap {"tags"} : \E t \in doc[k] : ~IsText(t)}
        \cup {k \in DOMAIN doc \cap {"title"} : ~IsText(doc[k])}

BadKeys(doc) == MissingKeys(doc) \cup MistypedKeys(doc)

IsArticle(doc) == BadKeys(doc) = {}

ArticleOrder ==
    <<"title", "date", "lastmod", "tags", "draft", "summary", "images">>

----------------------------------------------------------------------------
(* The content documents shipped in the repository: their front-matter     *)
(* (a backquote of the text is written ' and a long dash - in the strings) *)

\* data/blog/how-useState-hook-works-internally-in-react-18.mdx, lines 1-9
ArticleUseState ==
    [title |-> "How 'useState( )' Hook Works Internally in React 18",
     date |-> "2024-03-14",
     lastmod |-> "2024-03-14",
     tags |-> {"react-js", "in-depth"},
     draft |-> FALSE,
     summary |-> "Learn how 'mountState( )' and 'updateState( )' manage state across renders, and why following the rules of hooks-like calling them at the top level and avoiding conditional use, avoid directly calling a component function, asynchronous nature of 'setState( )', etc -is crucial for maintaining consistent state in your components.",
     images |-> << >>]

\* data/blog/understanding-the-virtual-dom-and-fiber-tree-in-react.mdx, lines 1-9
ArticleFiberTree ==
    [title |-> "Understanding the Virtual DOM and Fiber Tree in React",
     date |-> "2023-07-01",
     lastmod |-> "2023-07-01",
     tags |-> {"react-js"},
     draft |-> FALSE,
     summary |-> "Explore the Virtual DOM in React, the basics of React elements, the role of JSX, and the structure of the fiber node tree.",
     images |-> << >>]

\* data/blog/understanding-the-virtual-dom-and-fiber-tree-in-react.mdx, lines 168-176
ArticleEventHandling ==
    [title |-> "Event Handling in React 18",
     date |-> "2024-01-02",
     lastmod |-> "2024-01-02",
     tags |-> {"react-js"},
     draft |-> FALSE,
     summary |-> "In React, events are encapsulated within synthetic events, and instead of attaching event handlers to individual HTML elements, React employs a technique known as event delegation, attaching a single event listener to the root element.",
     images |-> << >>]

\* data/projectsData.ts, lines 25-33
ArticleLanes ==
    [title |-> "Concurrent Rendering and Lane Prioritization in React 18",
     date |-> "2024-08-11",
     lastmod |-> "2024-08-11",
     tags |-> {"react-js", "in-depth"},
     draft |-> FALSE,
     summary |-> "React categorizes pending updates into 31 update lanes, each representing different priority levels. React schedules and executes these updates by enqueuing tasks into a task queue that integrates with the JavaScript event loop. It processes updates in small chunks, yielding control back to the browser every 5ms to keep the UI responsive.",
     images |-> << >>]

\* data/projectsData.ts, lines 473-481
ArticleDomBreakPoint ==
    [title |-> "Setup DOM Break Point",
     date |-> "2022-11-16",
     lastmod |-> "2022-11-16",
     tags |-> {"web-development", "javascript"},
     draft |-> FALSE,
     summary |-> "Learn how to set a DOM breakpoint in your browser to debug dynamic content changes and optimize performance.",
     images |-> << >>]

\* unnamed/part_000, lines 1-9
ArticleIvy ==
    [title |-> "Angular Ivy Engine: Efficient Rendering Without Virtual DOM Overhead",
     date |-> "2024-11-12",
     lastmod |-> "2024-11-12",
     tags |-> {"Angular", "Ivy"},
     draft |-> FALSE,
     summary |-> "Delves into how Angular Ivy rendering engine optimizes application performance without relying on a virtual DOM.",
     images |-> << >>]

ShippedArticlesMissingImages ==
    << ArticleUseState, ArticleFiberTree, ArticleEventHandling,
       [k \in DOMAIN ArticleLanes \ {"images"} |-> ArticleLanes[k]],
       ArticleDomBreakPoint, ArticleIvy >>
ShippedArticlesWithDraft ==
    << ArticleUseState, ArticleFiberTree,
       [ArticleEventHandling EXCEPT !.draft = TRUE],
       ArticleLanes, ArticleDomBreakPoint, ArticleIvy >>
ShippedArticles ==
    << ArticleUseState, ArticleFiberTree, ArticleEventHandling,
       ArticleLanes, ArticleDomBreakPoint, ArticleIvy >>

\* the first line of text after the front-matter of each document
ShippedBodyStarts ==
    << "## [Introduction](#introduction)",
       "## Introduction",
       "## Introduction",
       "## Introduction",
       "## Introduction",
       "## [Introduction](#introduction)" >>

----------------------------------------------------------------------------
(* Load: eager validation of both collections *)

NoError == [kind |-> "none", collection |-> "none", index |-> 0, fields |-> {}]
NoResult == [op |-> "none", includeDrafts |-> FALSE, value |-> << >>]

\* bad[i] is the set of offending fields of the i-th record: the index of
\* the first record that has any (0 when no record has)
FirstInvalid(bad) ==
    IF \E i \in 1..Len(bad) : bad[i] # {}
    THEN CHOOSE i \in 1..Len(bad) :
            /\ bad[i] # {}
            /\ \A j \in 1..(i - 1) : bad[j] = {}
    ELSE 0

SchemaValidationError(coll, bad) ==
    LET i == FirstInvalid(bad)
    IN  [kind |-> "SchemaValidationError", collection |-> coll,
         index |-> i,
         fields |-> IF i = 0 THEN {} ELSE bad[i]]

IsArticleArray(docs) == \A i \in 1..Len(docs) : IsArticle(docs[i])

\* history of the first calls
NotSeen == [seen |-> FALSE, value |-> << >>]
NoFirst == [projects |-> NotSeen, all |-> NotSeen, published |-> NotSeen]

Readers == 1..NumReaders
ReadersIdle == [r \in Readers |-> [target |-> "none", view |-> << >>]]

(* Update lanes: the lane constants and the bitwise operations on them *)

TotalLanes == 31

NoLanes == \b0000000000000000000000000000000
NoLane == \b0000000000000000000000000000000

SyncLane == \b0000000000000000000000000000001

InputContinuousHydrationLane == \b0000000000000000000000000000010
InputContinuousLane == \b0000000000000000000000000000100

DefaultHydrationLane == \b0000000000000000000000000001000
DefaultLane == \b0000000000000000000000000010000

TransitionHydrationLane == \b0000000000000000000000000100000
TransitionLanesFifteen == \b0000000000111111111111111000000
TransitionLanes == \b0000000001111111111111111000000
TransitionLane1 == \b0000000000000000000000001000000

\* The bitwise operators work on 32-bit signed integers in two's complement:
\* ~a is -a - 1; & and | go bit by bit from the lowest bit, a negative
\* number ending in an endless run of one bits (-1).
BitNot(a) == -a - 1

RECURSIVE BitAnd(_, _)
BitAnd(a, b) ==
    IF a = 0 \/ b = 0 THEN 0
    ELSE IF a = -1 THEN b
    ELSE IF b = -1 THEN a
    ELSE (a % 2) * (b % 2) + 2 * BitAnd(a \div 2, b \div 2)

RECURSIVE BitOr(_, _)
BitOr(a, b) ==
    IF a = 0 THEN b
    ELSE IF b = 0 THEN a
    ELSE IF a = -1 \/ b = -1 THEN -1
    ELSE (IF a % 2 = 1 \/ b % 2 = 1 THEN 1 ELSE 0)
            + 2 * BitOr(a \div 2, b \div 2)

\* pendingLanes |= updateLane
mergeLanes(pendingLanes, updateLane) == BitOr(pendingLanes, updateLane)

\* the highest priority lane as the article computes it: lanes & ~lanes
getHighestPriorityLane(l) == BitAnd(l, BitNot(l))

\* the kinds of update of requestUpdateLane(): made in an event handler,
\* inside a transition, or from a source that is no event
UpdateKinds == {"event", "transition", "other"}

NoUpdates == [k \in UpdateKinds |-> 0]

\* the transition lanes are taken in turn, and after the last one of the
\* TransitionLanes mask the first one is next again
claimNextTransitionLane(lane) ==
    IF BitAnd(2 * lane, TransitionLanes) = NoLanes
    THEN TransitionLane1
    ELSE 2 * lane

\* the click handler's updates get the synchronous lane, a transition's
\* update the next transition lane, any other update the default lane
requestUpdateLane(kind, transitionLane) ==
    CASE kind = "event" -> SyncLane
      [] kind = "transition" -> transitionLane
      [] OTHER -> DefaultLane

\* no traversal of a fiber tree is going on
FiberIdle ==
    /\ fiberTree = <<0>>
    /\ fiber = 0
    /\ log = << >>
    /\ workState = "idle"
    /\ saved = 0
    /\ pauses = 0

\* no update has been made and no lanes expression evaluated
LanesIdle ==
    /\ lanes = NoLanes
    /\ notLanes = 0
    /\ highest = 0
    /\ evaluated = FALSE
    /\ nextTransitionLane = TransitionLane1
    /\ updates = NoUpdates

Init ==
    /\ input \in BoundedSeq(ProjectInputs, MaxProjects)
                    \cup {ShippedProjects, ExampleProjects}
    /\ articlesInput \in BoundedSeq(ArticleInputs, MaxArticles)
                            \cup {ShippedArticles}
    /\ phase = "init"
    /\ projectsData = << >>
    /\ articles = << >>
    /\ error = NoError
    /\ result = NoResult
    /\ serialized = [written |-> FALSE, projects |-> << >>, articles |-> << >>]
    /\ reparsed = [done |-> FALSE, projects |-> << >>, articles |-> << >>]
    /\ first = NoFirst
    /\ readers = ReadersIdle
    /\ FiberIdle
    /\ LanesIdle

Load ==
    /\ phase = "init"
    /\ IF ~IsProjectArray(input)
       THEN /\ phase' = "failed"
            /\ error' = SchemaValidationError("projects",
                          [i \in 1..Len(input) |-> BadFields(input[i])])
            /\ UNCHANGED <<projectsData, articles>>
       ELSE IF ~IsArticleArray(articlesInput)
       THEN /\ phase' = "failed"
            /\ error' = SchemaValidationError("articles",
                          [i \in 1..Len(articlesInput) |->
                              BadKeys(articlesInput[i])])
            /\ UNCHANGED <<projectsData, articles>>
       ELSE /\ phase' = "loaded"
            /\ projectsData' = input
            /\ articles' = articlesInput
            /\ UNCHANGED error
    /\ UNCHANGED <<input, articlesInput, result, serialized, reparsed>>
    /\ UNCHANGED <<first, readers, fiberVars, laneVars>>

----------------------------------------------------------------------------
(* The consumer interface *)

\* export default projectsData: the consumer gets the array itself
listProjectsDefaultsHref ==
    [i \in 1..Len(projectsData) |->
        IF "href" \in DOMAIN projectsData[i] THEN projectsData[i]
        ELSE [f \in DOMAIN projectsData[i] \cup {"href"} |->
                IF f = "href" THEN "" ELSE projectsData[i][f]]]
listProjectsClickableOnly ==
    SelectSeq(projectsData, LAMBDA r : "href" \in DOMAIN r)
listProjectsReversed ==
    [i \in 1..Len(projectsData) |-> projectsData[Len(projectsData) + 1 - i]]
listProjects == projectsData

IsPublished(doc) == ~doc.draft

listArticlesIgnoresFlag(includeDrafts) == SelectSeq(articles, IsPublished)
listArticlesKeepsDrafts(includeDrafts) == articles
listArticlesNewestFirst(includeDrafts) ==
    IF includeDrafts THEN articles
    ELSE LET published == SelectSeq(articles, IsPublished)
         IN  [i \in 1..Len(published) |-> published[Len(published) + 1 - i]]
listArticles(includeDrafts) ==
    IF includeDrafts THEN articles ELSE SelectSeq(articles, IsPublished)

\* history variable: keeps the value of the first call under `key`
RecordFirst(key, value) ==
    IF first[key].seen THEN first
    ELSE [first EXCEPT ![key] = [seen |-> TRUE, value |-> value]]

ArticlesKey(includeDrafts) == IF includeDrafts THEN "all" ELSE "published"

ListProjectsReversesInPlace ==
    /\ phase = "loaded"
    /\ projectsData' = listProjectsReversed
    /\ result' = [op |-> "listProjects", includeDrafts |-> FALSE,
                  value |-> listProjectsReversed]
    /\ first' = RecordFirst("projects", listProjectsReversed)
    /\ UNCHANGED <<input, articlesInput, phase, articles, error,
                   serialized, reparsed>>
    /\ UNCHANGED <<readers, fiberVars, laneVars>>
\* a list call that takes the records out of the array as it hands them over
ListProjectsDrainsStore ==
    /\ phase = "loaded"
    /\ projectsData' = << >>
    /\ result' = [op |-> "listProjects", includeDrafts |-> FALSE,
                  value |-> listProjects]
    /\ first' = RecordFirst("projects", listProjects)
    /\ UNCHANGED <<input, articlesInput, phase, articles, error,
                   serialized, reparsed>>
    /\ UNCHANGED <<readers, fiberVars, laneVars>>
ListProjects ==
    /\ phase = "loaded"
    /\ result' = [op |-> "listProjects", includeDrafts |-> FALSE,
                  value |-> listProjects]
    /\ first' = RecordFirst("projects", listProjects)
    /\ UNCHANGED <<input, articlesInput, phase, projectsData, articles, error,
                   serialized, reparsed>>
    /\ UNCHANGED <<readers, fiberVars, laneVars>>

ListArticles(includeDrafts) ==
    /\ phase = "loaded"
    /\ result' = [op |-> "listArticles", includeDrafts |-> includeDrafts,
                  value |-> listArticles(includeDrafts)]
    /\ first' = RecordFirst(ArticlesKey(includeDrafts),
                            listArticles(includeDrafts))
    /\ UNCHANGED <<input, articlesInput, phase, projectsData, articles, error,
                   serialized, reparsed>>
    /\ UNCHANGED <<readers, fiberVars, laneVars>>

----------------------------------------------------------------------------
(* Writing a record set out and reading it back *)

\* a value as it is written in the key/value text
Encode(key, v) ==
    IF key = "draft" THEN (IF v THEN "true" ELSE "false") ELSE v

Decode(key, text) ==
    IF key = "draft" THEN text = "true" ELSE text

\* one `key: value` line for every property the record defines, in the
\* declared order; a property the record leaves out gets no line
SerializeRecord(rec, order) ==
    LET present == SelectSeq(order, LAMBDA f : f \in DOMAIN rec)
    IN  [k \in 1..Len(present) |->
            <<present[k], Encode(present[k], rec[present[k]])>>]

ParseRecord(lines) ==
    [f \in {lines[k][1] : k \in 1..Len(lines)} |->
        LET k == CHOOSE k \in 1..Len(lines) : lines[k][1] = f
        IN  Decode(f, lines[k][2])]

SerializeSet(recs, order) ==
    [i \in 1..Len(recs) |-> SerializeRecord(recs[i], order)]

ParseSet(text) == [i \in 1..Len(text) |-> ParseRecord(text[i])]

Serialize ==
    /\ phase = "loaded"
    /\ ~serialized.written
    /\ serialized' = [written |-> TRUE,
                      projects |-> SerializeSet(projectsData, FieldOrder),
                      articles |-> SerializeSet(articles, ArticleOrder)]
    /\ UNCHANGED <<input, articlesInput, phase, projectsData, articles, error,
                   result, reparsed>>
    /\ UNCHANGED <<first, readers, fiberVars, laneVars>>

Reparse ==
    /\ serialized.written
    /\ ~reparsed.done
    /\ reparsed' = [done |-> TRUE,
                    projects |-> ParseSet(serialized.projects),
                    articles |-> ParseSet(serialized.articles)]
    /\ UNCHANGED <<input, articlesInput, phase, projectsData, articles, error,
                   result, serialized>>
    /\ UNCHANGED <<first, readers, fiberVars, laneVars>>

NextRoundTrip ==
    \/ Load
    \/ Serialize
    \/ Reparse

SpecRoundTrip == Init /\ [][NextRoundTrip]_vars

----------------------------------------------------------------------------
(* Several consumers reading the collections element by element *)

ReaderTargets == {"projects", "all", "published"}

\* the sequence a reader of `target` walks over
TargetSeq(target) ==
    CASE target = "projects" -> listProjects
      [] target = "all" -> listArticles(TRUE)
      [] OTHER -> listArticles(FALSE)

ReaderBegin(r, target) ==
    /\ phase = "loaded"
    /\ readers[r].target = "none"
    /\ readers' = [readers EXCEPT ![r] = [target |-> target, view |-> << >>]]
    /\ UNCHANGED <<input, articlesInput, phase, projectsData, articles, error,
                   result, serialized, reparsed, first, fiberVars, laneVars>>

\* a reader that takes each record out of the array as it reads it
ReaderStepShifts(r) ==
    /\ readers[r].target # "none"
    /\ IF readers[r].target = "projects"
       THEN /\ projectsData # << >>
            /\ readers' = [readers EXCEPT
                              ![r].view = Append(@, Head(projectsData))]
            /\ projectsData' = Tail(projectsData)
       ELSE /\ Len(readers[r].view) < Len(TargetSeq(readers[r].target))
            /\ readers' = [readers EXCEPT ![r].view =
                  Append(@, TargetSeq(readers[r].target)[Len(@) + 1])]
            /\ UNCHANGED projectsData
    /\ UNCHANGED <<input, articlesInput, phase, articles, error,
                   result, serialized, reparsed, first, fiberVars, laneVars>>
\* one step of the iteration: the reader takes the next element
ReaderStep(r) ==
    /\ readers[r].target # "none"
    /\ Len(readers[r].view) < Len(TargetSeq(readers[r].target))
    /\ readers' = [readers EXCEPT ![r].view =
          Append(@, TargetSeq(readers[r].target)[Len(@) + 1])]
    /\ UNCHANGED <<input, articlesInput, phase, projectsData, articles, error,
                   result, serialized, reparsed, first, fiberVars, laneVars>>

\* valid records for the readers to read
ReaderProjects == {ExampleProjects[1], ExampleProjects[2]}
ReaderArticles == {MkArticle("P", FALSE), MkArticle("Q", TRUE)}

InitReaders ==
    /\ input \in BoundedSeq(ReaderProjects, MaxProjects)
    /\ articlesInput \in BoundedSeq(ReaderArticles, MaxArticles)
    /\ phase = "init"
    /\ projectsData = << >>
    /\ articles = << >>
    /\ error = NoError
    /\ result = NoResult
    /\ serialized = [written |-> FALSE, projects |-> << >>, articles |-> << >>]
    /\ reparsed = [done |-> FALSE, projects |-> << >>, articles |-> << >>]
    /\ first = NoFirst
    /\ readers = ReadersIdle
    /\ FiberIdle
    /\ LanesIdle

NextReaders ==
    \/ Load
    \/ \E r \in Readers : \E t \in ReaderTargets : ReaderBegin(r, t)
    \/ \E r \in Readers : ReaderStep(r)

SpecReaders == InitReaders /\ [][NextReaders]_vars

----------------------------------------------------------------------------
(* The depth-first traversal example: performWork(fiber) *)

\* A fiber tree of n fibers, given by the parent of each fiber (0 for the
\* root, fiber 1); the children of a fiber are ordered by their number.
FiberTrees ==
    UNION { { t \in [1..n -> 0..(n - 1)] :
                t[1] = 0 /\ \A i \in 2..n : t[i] \in 1..(i - 1) } :
            n \in 1..MaxFibers }

Root == 1

ChildrenOf(t, p) ==
    SelectSeq([i \in 1..Len(t) |-> i], LAMBDA c : t[c] = p)

\* fiber.return, fiber.child and fiber.sibling (0 is null)
Return(t, f) == t[f]

Child(t, f) ==
    LET kids == ChildrenOf(t, f)
    IN  IF kids = << >> THEN 0 ELSE Head(kids)

Sibling(t, f) ==
    LET later == SelectSeq(ChildrenOf(t, t[f]), LAMBDA c : c > f)
    IN  IF later = << >> THEN 0 ELSE Head(later)

\* while(!fiber.sibling && fiber.return) fiber = fiber.return
RECURSIVE Climb(_, _)
Climb(t, f) ==
    IF Sibling(t, f) = 0 /\ Return(t, f) # 0 THEN Climb(t, Return(t, f)) ELSE f

\* the fiber the loop goes to after f
NextFiberNoClimb(t, f) ==
    IF Child(t, f) # 0 THEN Child(t, f) ELSE Sibling(t, f)
NextFiber(t, f) ==
    IF Child(t, f) # 0 THEN Child(t, f) ELSE Sibling(t, Climb(t, f))

\* performWork(root)
StartWork ==
    /\ workState = "idle"
    /\ fiber' = Root
    /\ workState' = "running"
    /\ UNCHANGED <<fiberTree, log, saved, pauses>>
    /\ UNCHANGED <<input, articlesInput, phase, projectsData, articles, error,
                   result, serialized, reparsed, first, readers, laneVars>>

\* one turn of while(fiber): the fiber is processed, then the work pauses
\* (shouldPauseWork() gave `pause`) or moves on; the loop ends on null
WorkStep(pause) ==
    /\ workState = "running"
    /\ fiber # 0
    /\ log' = Append(log, fiber)
    /\ IF pause
       THEN /\ pauses < MaxPauses
            /\ saved' = fiber
            /\ pauses' = pauses + 1
            /\ workState' = "paused"
            /\ UNCHANGED fiber
       ELSE /\ fiber' = NextFiber(fiberTree, fiber)
            /\ workState' =
                  IF NextFiber(fiberTree, fiber) = 0 THEN "done" ELSE "running"
            /\ UNCHANGED <<saved, pauses>>
    /\ UNCHANGED fiberTree
    /\ UNCHANGED <<input, articlesInput, phase, projectsData, articles, error,
                   result, serialized, reparsed, first, readers, laneVars>>

\* performWork(saved) after a pause
ResumeWork ==
    /\ workState = "paused"
    /\ fiber' = saved
    /\ workState' = "running"
    /\ UNCHANGED <<fiberTree, log, saved, pauses>>
    /\ UNCHANGED <<input, articlesInput, phase, projectsData, articles, error,
                   result, serialized, reparsed, first, readers, laneVars>>

InitFiber ==
    /\ input = << >>
    /\ articlesInput = << >>
    /\ phase = "init"
    /\ projectsData = << >>
    /\ articles = << >>
    /\ error = NoError
    /\ result = NoResult
    /\ serialized = [written |-> FALSE, projects |-> << >>, articles |-> << >>]
    /\ reparsed = [done |-> FALSE, projects |-> << >>, articles |-> << >>]
    /\ first = NoFirst
    /\ readers = ReadersIdle
    /\ fiberTree \in FiberTrees
    /\ fiber = 0
    /\ log = << >>
    /\ workState = "idle"
    /\ saved = 0
    /\ pauses = 0
    /\ LanesIdle

NextFiberWork ==
    \/ StartWork
    \/ \E pause \in BOOLEAN : WorkStep(pause)
    \/ ResumeWork

SpecFiber == InitFiber /\ [][NextFiberWork]_vars

----------------------------------------------------------------------------
(* The bitwise expressions on a lanes bitmask, and the updates of the      *)
(* Counter example                                                         *)

\* nothing has been declared, loaded, listed, written or read
StoreIdle ==
    /\ input = << >>
    /\ articlesInput = << >>
    /\ phase = "init"
    /\ projectsData = << >>
    /\ articles = << >>
    /\ error = NoError
    /\ result = NoResult
    /\ serialized = [written |-> FALSE, projects |-> << >>, articles |-> << >>]
    /\ reparsed = [done |-> FALSE, projects |-> << >>, articles |-> << >>]
    /\ first = NoFirst
    /\ readers = ReadersIdle

\* the bitmasks a lanes variable is given
LaneInputs == 0..(2 ^ MaxLaneBits - 1)

\* ~lanes;  lanes & ~lanes;
EvaluateHighest ==
    /\ ~evaluated
    /\ notLanes' = BitNot(lanes)
    /\ highest' = getHighestPriorityLane(lanes)
    /\ evaluated' = TRUE
    /\ UNCHANGED <<lanes, nextTransitionLane, updates>>
    /\ UNCHANGED <<storeVars, fiberVars>>

\* var lanes = ...
InitBitwise ==
    /\ StoreIdle
    /\ FiberIdle
    /\ lanes \in LaneInputs
    /\ notLanes = 0
    /\ highest = 0
    /\ evaluated = FALSE
    /\ nextTransitionLane = TransitionLane1
    /\ updates = NoUpdates

NextBitwise == EvaluateHighest

SpecBitwise == InitBitwise /\ [][NextBitwise]_vars

MaxUpdatesOf(kind) ==
    CASE kind = "event" -> MaxEventUpdates
      [] kind = "transition" -> MaxTransitionUpdates
      [] OTHER -> MaxOtherUpdates

\* setState() on the Counter fiber: the update's lane is determined and
\* merged into the fiber's lanes
SetState(kind) ==
    /\ updates[kind] < MaxUpdatesOf(kind)
    /\ lanes' = mergeLanes(lanes, requestUpdateLane(kind, nextTransitionLane))
    /\ nextTransitionLane' =
          IF kind = "transition"
          THEN claimNextTransitionLane(nextTransitionLane)
          ELSE nextTransitionLane
    /\ updates' = [updates EXCEPT ![kind] = @ + 1]
    /\ UNCHANGED <<notLanes, highest, evaluated>>
    /\ UNCHANGED <<storeVars, fiberVars>>

\* the Counter fiber before the click
InitCounter ==
    /\ StoreIdle
    /\ FiberIdle
    /\ LanesIdle

NextCounter == \E kind \in UpdateKinds : SetState(kind)

SpecCounter == InitCounter /\ [][NextCounter]_vars

----------------------------------------------------------------------------

Next ==
    \/ Load
    \/ ListProjects
    \/ \E b \in BOOLEAN : ListArticles(b)

Spec == Init /\ [][Next]_vars

----------------------------------------------------------------------------
(* Properties *)

\* a record as the schema of the data model wants it
HasTitleAndDescription(rec) ==
    "title" \in DOMAIN rec /\ "description" \in DOMAIN rec

AllWellFormed(recs) ==
    \A i \in 1..Len(recs) : HasTitleAndDescription(recs[i])

AllKeysDefined(docs) ==
    \A i \in 1..Len(docs) :
        {"title", "date", "lastmod", "tags", "draft", "summary", "images"}
            \subseteq DOMAIN docs[i]

\* no value of the two inputs has the wrong type
AllTextual(recs) ==
    \A i \in 1..Len(recs) : \A f \in DOMAIN recs[i] : recs[i][f] # NotText

TagsTextual(docs) ==
    \A i \in 1..Len(docs) : \A t \in docs[i].tags : t # NotText

\* C1: listProjects() returns exactly the declared records, all of them and
\* in the order of their declaration.
ListProjectsReturnsAllInOrder ==
    result.op = "listProjects" =>
        /\ Len(result.value) = Len(input)
        /\ \A i \in 1..Len(input) : result.value[i] = input[i]

ListProjectsOrderWitness ==
    /\ result.op = "listProjects"
    /\ Len(input) = 2
    /\ input[1] # input[2]
    /\ "href" \notin DOMAIN input[1]

\* C2: listArticles(false) holds no draft and holds every article that is
\* not a draft.
ListArticlesExcludesDrafts ==
    (result.op = "listArticles" /\ ~result.includeDrafts) =>
        /\ \A i \in 1..Len(result.value) : ~result.value[i].draft
        /\ \A j \in 1..Len(articles) :
              ~articles[j].draft =>
                  \E i \in 1..Len(result.value) : result.value[i] = articles[j]

ListArticlesExcludesDraftsWitness ==
    /\ result.op = "listArticles"
    /\ ~result.includeDrafts
    /\ \E j \in 1..Len(articles) : articles[j].draft
    /\ \E j \in 1..Len(articles) : ~articles[j].draft

\* C3: listArticles(true) returns the full set of loaded articles, drafts
\* included, none omitted.
ListArticlesWithDraftsReturnsAll ==
    (result.op = "listArticles" /\ result.includeDrafts) =>
        /\ Len(result.value) = Len(articlesInput)
        /\ \A j \in 1..Len(articlesInput) : result.value[j] = articlesInput[j]

ListArticlesWithDraftsWitness ==
    /\ result.op = "listArticles"
    /\ result.includeDrafts
    /\ \E j \in 1..Len(result.value) : result.value[j].draft
    /\ \E j \in 1..Len(result.value) : ~result.value[j].draft

\* C4: a load of a project record without title or without description ends
\* in a SchemaValidationError that names the record and the missing field;
\* the record is not dropped from a catalog that is served all the same.
MissingRequiredFieldIsAnError ==
    (phase # "init" /\ ~AllWellFormed(input)) =>
        /\ phase = "failed"
        /\ error.kind = "SchemaValidationError"
        /\ error.collection = "projects"
        /\ error.index \in 1..Len(input)
        /\ \A j \in 1..(error.index - 1) : HasTitleAndDescription(input[j])
        /\ error.fields # {}
        /\ {f \in {"title", "description"} : f \notin DOMAIN input[error.index]}
              \subseteq error.fields
        /\ AllTextual(input) =>
              /\ ~HasTitleAndDescription(input[error.index])
              /\ error.fields =
                    {f \in {"title", "description"} :
                        f \notin DOMAIN input[error.index]}
        /\ projectsData = << >>
        /\ result = NoResult

MissingRequiredFieldWitness ==
    /\ phase = "failed"
    /\ Len(input) = 2
    /\ HasTitleAndDescription(input[1])
    /\ error.index = 2
    /\ error.fields = {"description"}

\* C5: validation is eager and fatal: a list operation is served only when
\* every record of both inputs is valid, and a failed load serves nothing.
NoPartialCatalog ==
    /\ result.op # "none" =>
          /\ phase = "loaded"
          /\ AllWellFormed(input)
          /\ AllKeysDefined(articlesInput)
    /\ phase = "loaded" => (AllWellFormed(input) /\ AllKeysDefined(articlesInput))
    /\ phase = "failed" =>
          (projectsData = << >> /\ articles = << >> /\ result = NoResult)

NoPartialCatalogWitness ==
    /\ phase = "failed"
    /\ \E i \in 1..Len(input) : HasTitleAndDescription(input[i])
    /\ \E i \in 1..Len(input) : ~HasTitleAndDescription(input[i])
    /\ HasTitleAndDescription(input[1])

\* C6: the project sequence is immutable at runtime: once loaded it equals
\* the sequence of the build and no step of a consumer changes it.
ProjectsImmutable ==
    /\ [](phase = "loaded" => projectsData = input)
    /\ [][phase = "loaded" => projectsData' = projectsData]_vars

ProjectsImmutableWitness ==
    /\ phase = "loaded"
    /\ result.op = "listProjects"
    /\ Len(projectsData) = 2
    /\ projectsData[1] # projectsData[2]

\* C7: on an empty input the load raises no error for the projects and
\* listProjects() returns the empty sequence.
EmptyInputIsNotAnError ==
    input = << >> =>
        /\ error.collection # "projects"
        /\ (phase # "init" /\ AllKeysDefined(articlesInput)
                          /\ TagsTextual(articlesInput)) => phase = "loaded"
        /\ result.op = "listProjects" => result.value = << >>

EmptyInputWitness ==
    /\ input = << >>
    /\ result.op = "listProjects"
    /\ result.value = << >>

ListProjectsKeepsFields ==
    result.op = "listProjects" =>
        /\ \A i \in 1..Len(input) :
              /\ i \in DOMAIN result.value
              /\ \A f \in {"title", "description", "href", "imgSrc"} :
                    /\ f \in DOMAIN result.value[i] <=> f \in DOMAIN input[i]
                    /\ f \in DOMAIN input[i] => result.value[i][f] = input[i][f]
        /\ input = ExampleProjects =>
              /\ Len(result.value) = 2
              /\ result.value[1].title = "A"
              /\ result.value[1].description = "d1"
              /\ "href" \notin DOMAIN result.value[1]
              /\ result.value[2].title = "B"
              /\ result.value[2].description = "d2"
              /\ result.value[2].href = "https://x"

ListProjectsExampleWitness ==
    /\ input = ExampleProjects
    /\ result.op = "listProjects"

\* C10: every record of the store has title and description, and no
\* combination of href and imgSrc makes a record invalid.
RequiredPresentOptionalFree ==
    /\ phase = "loaded" => AllWellFormed(projectsData)
    /\ error.collection = "projects" =>
          (~AllWellFormed(input) \/ ~AllTextual(input))
    /\ (phase # "init" /\ AllWellFormed(input) /\ AllTextual(input)
                       /\ AllKeysDefined(articlesInput)
                       /\ TagsTextual(articlesInput))
          => phase = "loaded"

OptionalCombinationsWitness ==
    /\ phase = "loaded"
    /\ Len(projectsData) = 2
    /\ DOMAIN projectsData[1] = {"title", "description", "href"}
    /\ DOMAIN projectsData[2] = {"title", "description", "imgSrc"}

\* C11 (as claimed): every record held by the store has a non-empty title.
StoredTitlesNonEmpty ==
    phase = "loaded" =>
        \A i \in 1..Len(projectsData) : projectsData[i].title # ""

\* C11 (amended): every record held by the store has a title that is text;
\* the schema does not look at its length, so a record whose title is the
\* empty text is accepted; the shipped records have non-empty titles.
TitlePresentEmptyAccepted ==
    /\ phase = "loaded" =>
          \A i \in 1..Len(projectsData) :
              "title" \in DOMAIN projectsData[i]
                  /\ projectsData[i].title # NotText
    /\ (/\ phase # "init"
        /\ AllWellFormed(input) /\ AllTextual(input)
        /\ AllKeysDefined(articlesInput) /\ TagsTextual(articlesInput)
        /\ \E i \in 1..Len(input) : input[i].title = "")
          => (phase = "loaded" /\ projectsData = input)
    /\ input = ShippedProjects =>
          \A i \in 1..Len(input) : input[i].title # ""

EmptyTitleLoadedWitness ==
    /\ phase = "loaded"
    /\ result.op = "listProjects"
    /\ \E i \in 1..Len(result.value) : result.value[i].title = ""

\* C12: a value of the wrong type (a project field that is not text, tags
\* that are not a set of text) fails the load with SchemaValidationError,
\* the one error kind, which a missing field raises too.
WrongTypeIsSchemaError ==
    /\ error.kind \in {"none", "SchemaValidationError"}
    /\ phase = "failed" <=> error.kind = "SchemaValidationError"
    /\ (phase # "init" /\ (~AllTextual(input) \/ ~TagsTextual(articlesInput)))
          => /\ phase = "failed"
             /\ projectsData = << >>
             /\ articles = << >>
    /\ (phase = "failed" /\ AllWellFormed(input) /\ ~AllTextual(input))
          => /\ error.collection = "projects"
             /\ error.index \in 1..Len(input)
             /\ \E f \in error.fields : input[error.index][f] = NotText
    /\ (phase = "failed" /\ AllWellFormed(input) /\ AllTextual(input)
            /\ AllKeysDefined(articlesInput))
          => /\ error.collection = "articles"
             /\ error.fields = {"tags"}
             /\ articlesInput[error.index].tags = {NotText}

WrongTypeWitness ==
    /\ phase = "failed"
    /\ error.collection = "articles"
    /\ error.fields = {"tags"}
    /\ Len(articlesInput) = 2
    /\ error.index = 2

\* C13: the list operations have no side effect: a call leaves both stored
\* collections as they are, and every call returns what the first call of
\* the same operation returned.
ListCallsHaveNoSideEffects ==
    /\ [][phase = "loaded" =>
            (projectsData' = projectsData /\ articles' = articles)]_vars
    /\ [](result.op = "listProjects" =>
            (first.projects.seen /\ result.value = first.projects.value))
    /\ [](result.op = "listArticles" =>
            /\ first[ArticlesKey(result.includeDrafts)].seen
            /\ result.value = first[ArticlesKey(result.includeDrafts)].value)
    /\ [](first.projects.seen => first.projects.value = projectsData)

RepeatedListCallsWitness ==
    /\ first.projects.seen /\ first.all.seen /\ first.published.seen
    /\ result.op = "listProjects"
    /\ Len(projectsData) = 2
    /\ Len(first.all.value) = 2
    /\ Len(first.published.value) = 1

IsPrefix(s, t) ==
    Len(s) <= Len(t) /\ \A i \in 1..Len(s) : s[i] = t[i]

\* what a reader of `target` is to see, from the inputs of the build
Expected(target) ==
    CASE target = "projects" -> input
      [] target = "all" -> articlesInput
      [] OTHER -> SelectSeq(articlesInput, LAMBDA d : ~d.draft)

\* C14: readers that interleave their reads without any lock all see the
\* same complete sequences: what a reader has read so far is always the
\* beginning of the loaded sequence, never a changed or half-built one, and
\* nothing is read before the load is complete.
ReadersSeeTheSameSequences ==
    /\ phase # "loaded" => readers = ReadersIdle
    /\ \A r \in Readers :
          readers[r].target # "none" =>
              IsPrefix(readers[r].view, Expected(readers[r].target))
    /\ \A r1, r2 \in Readers :
          (/\ readers[r1].target = readers[r2].target
           /\ Len(readers[r1].view) = Len(readers[r2].view))
              => readers[r1].view = readers[r2].view

InterleavedReadersWitness ==
    /\ Len(input) = 2
    /\ input[1] # input[2]
    /\ readers[1].target = "projects"
    /\ Len(readers[1].view) = 1
    /\ readers[2].target = "projects"
    /\ readers[2].view = input

HasDuplicateTitle(recs) ==
    \E i, j \in 1..Len(recs) :
        /\ i # j
        /\ "title" \in DOMAIN recs[i] /\ "title" \in DOMAIN recs[j]
        /\ recs[i].title = recs[j].title

\* C15: titles need not be unique: an input with two records of the same
\* title loads without error and listProjects() returns both, each at its
\* declared position.
DuplicateTitlesAreKept ==
    HasDuplicateTitle(input) =>
        /\ error.collection = "projects" =>
              (~AllWellFormed(input) \/ ~AllTextual(input))
        /\ (/\ phase # "init"
            /\ AllWellFormed(input) /\ AllTextual(input)
            /\ AllKeysDefined(articlesInput) /\ TagsTextual(articlesInput))
              => (phase = "loaded" /\ Len(projectsData) = Len(input))
        /\ result.op = "listProjects" =>
              /\ DOMAIN result.value = DOMAIN input
              /\ \A i \in DOMAIN input : result.value[i] = input[i]

DuplicateTitlesWitness ==
    /\ result.op = "listProjects"
    /\ Len(result.value) = 2
    /\ result.value[1].title = result.value[2].title
    /\ result.value[1] # result.value[2]

\* C16: every shipped content document has a front-matter block with the
\* keys title, date, lastmod, tags, draft, summary and images and a body
\* after it, so the shipped content loads without a schema error.
ShippedContentIsValid ==
    /\ \A i \in 1..Len(ShippedArticles) :
          DOMAIN ShippedArticles[i] =
              {"title", "date", "lastmod", "tags", "draft", "summary", "images"}
    /\ Len(ShippedBodyStarts) = Len(ShippedArticles)
    /\ \A i \in 1..Len(ShippedBodyStarts) : ShippedBodyStarts[i] # ""
    /\ articlesInput = ShippedArticles =>
          /\ error.collection # "articles"
          /\ (phase # "init" /\ AllWellFormed(input) /\ AllTextual(input))
                => (phase = "loaded" /\ articles = articlesInput)

ShippedContentLoadedWitness ==
    /\ phase = "loaded"
    /\ input = ShippedProjects
    /\ Len(articles) = 6
    /\ articles[6].title =
          "Angular Ivy Engine: Efficient Rendering Without Virtual DOM Overhead"

\* s can be got from t by leaving elements out, the others keeping their order
RECURSIVE IsSubsequence(_, _)
IsSubsequence(s, t) ==
    IF s = << >> THEN TRUE
    ELSE IF t = << >> THEN FALSE
    ELSE IF Head(s) = Head(t) THEN IsSubsequence(Tail(s), Tail(t))
    ELSE IsSubsequence(s, Tail(t))

BothArticleListsSeen == first.all.seen /\ first.published.seen

\* C17: listArticles(false) is an order-preserving subsequence of
\* listArticles(true); the two are equal exactly when no loaded article is
\* a draft.
PublishedIsSubsequenceOfAll ==
    BothArticleListsSeen =>
        /\ IsSubsequence(first.published.value, first.all.value)
        /\ first.published.value = first.all.value
              <=> (\A i \in 1..Len(articles) : ~articles[i].draft)

PublishedSubsequenceWitness ==
    /\ BothArticleListsSeen
    /\ Len(first.all.value) = 2
    /\ first.all.value[1] # first.all.value[2]
    /\ first.published.value = first.all.value

\* C19: every shipped article has draft: false, so on the shipped content
\* listArticles(false) and listArticles(true) return the same sequence.
ShippedArticlesAllPublished ==
    /\ \A i \in 1..Len(ShippedArticles) : ShippedArticles[i].draft = FALSE
    /\ articlesInput = ShippedArticles =>
          /\ result.op = "listArticles" => result.value = articlesInput
          /\ BothArticleListsSeen =>
                /\ first.published.value = first.all.value
                /\ Len(first.published.value) = Len(articlesInput)

ShippedArticlesListedWitness ==
    /\ articlesInput = ShippedArticles
    /\ BothArticleListsSeen
    /\ result.op = "listArticles"
    /\ ~result.includeDrafts
    /\ Len(result.value) = 6

\* the fibers of the forest `nodes` in depth-first pre-order
RECURSIVE PreOrderOf(_, _)
PreOrderOf(t, nodes) ==
    IF nodes = << >> THEN << >>
    ELSE <<Head(nodes)>> \o PreOrderOf(t, ChildrenOf(t, Head(nodes)))
                         \o PreOrderOf(t, Tail(nodes))

PreOrder(t) == PreOrderOf(t, <<1>>)

\* the place of fiber f in the log (0 when it is not there)
PlaceInLog(f) ==
    IF \E i \in 1..Len(log) : log[i] = f
    THEN CHOOSE i \in 1..Len(log) : log[i] = f
    ELSE 0

\* C20: performWork on the root of a fiber tree, never pausing, processes
\* every fiber exactly once, a parent before its children and the children
\* in sibling order (depth-first pre-order), and then leaves the loop.
TraversalIsPreOrder ==
    pauses = 0 =>
        /\ IsPrefix(log, PreOrder(fiberTree))
        /\ workState = "running" =>
              /\ Len(log) < Len(fiberTree)
              /\ fiber = PreOrder(fiberTree)[Len(log) + 1]
        /\ workState = "done" =>
              /\ fiber = 0
              /\ Len(log) = Len(fiberTree)
              /\ \A f \in 1..Len(fiberTree) :
                    Cardinality({i \in 1..Len(log) : log[i] = f}) = 1
              /\ \A f \in 2..Len(fiberTree) :
                    PlaceInLog(fiberTree[f]) < PlaceInLog(f)
              /\ \A f, g \in 2..Len(fiberTree) :
                    (fiberTree[f] = fiberTree[g] /\ f < g)
                        => PlaceInLog(f) < PlaceInLog(g)
              /\ log = PreOrder(fiberTree)

TraversalDoneWitness ==
    /\ workState = "done"
    /\ pauses = 0
    /\ fiberTree = <<0, 1, 1, 2>>
    /\ log = <<1, 2, 4, 3>>

\* C21: when performWork pauses and is called again with the saved fiber,
\* the fibers processed before the pause followed by those processed after
\* the resume are the sequence of an uninterrupted traversal.
PausedTraversalSameAsUninterrupted ==
    workState = "done" => log = PreOrder(fiberTree)

\* a traversal that paused once, on its first fiber, and was resumed to the
\* end
PausedTraversalDoneWitness ==
    /\ workState = "done"
    /\ pauses = 1
    /\ saved = Root
    /\ fiberTree = <<0, 1, 1>>
    /\ log = <<1, 1, 2, 3>>

\* the lowest bit that is set in a bitmask (0 when none is)
RECURSIVE LowestSetBit(_)
LowestSetBit(x) ==
    IF x = 0 THEN 0
    ELSE IF x % 2 = 1 THEN 1
    ELSE 2 * LowestSetBit(x \div 2)

\* the number of bits set in a bitmask that is not negative
RECURSIVE BitCount(_)
BitCount(x) == IF x <= 0 THEN 0 ELSE (x % 2) + BitCount(x \div 2)

\* the number of bits a bitmask that is not negative takes
RECURSIVE BitLength(_)
BitLength(x) == IF x <= 0 THEN 0 ELSE 1 + BitLength(x \div 2)

IsSingleBit(x) == x > 0 /\ BitCount(x) = 1

\* a value as the article's comments write it, in eight binary digits
EightBits(x) == x % 256

\* C22: lanes & ~lanes is the highest-priority lane of a lanes bitmask, its
\* lowest set bit; for lanes = 0b01011000, ~lanes is 0b10101000 and the
\* result is 0b00001000.
HighestLaneIsLowestSetBit ==
    evaluated =>
        /\ highest = LowestSetBit(lanes)
        /\ lanes = \b01011000 =>
              /\ EightBits(notLanes) = \b10101000
              /\ highest = \b00001000

\* the article's example has been evaluated
HighestLaneExampleWitness ==
    /\ evaluated
    /\ lanes = \b01011000
    /\ notLanes = -89
    /\ highest = 0

\* C23: the three setState() calls made in the click handler and the one
\* made inside startTransition() leave the Counter fiber with the lanes
\* 0b10000001, decimal 129.
CounterLanesAre129 ==
    updates = [event |-> 3, transition |-> 1, other |-> 0]
        => lanes = \b10000001 /\ lanes = 129

\* the Counter fiber after the four updates of the click
CounterClickedWitness ==
    /\ updates = [event |-> 3, transition |-> 1, other |-> 0]
    /\ lanes = BitOr(SyncLane, TransitionLane1)
    /\ lanes = 65

SingleLanes ==
    {SyncLane, InputContinuousHydrationLane, InputContinuousLane,
     DefaultHydrationLane, DefaultLane, TransitionHydrationLane,
     TransitionLane1}

\* C24: the TransitionLanes mask has exactly 16 bits set and its lowest set
\* bit is TransitionLane1; the seven single-lane constants are distinct
\* single bits; every constant fits in TotalLanes = 31 bits. The transition
\* lane handed out next is always one bit of the mask, and after sixteen
\* transition updates it is TransitionLane1 again, not before.
LaneConstantsConsistent ==
    /\ BitCount(TransitionLanes) = 16
    /\ LowestSetBit(TransitionLanes) = TransitionLane1
    /\ \A l \in SingleLanes : IsSingleBit(l)
    /\ Cardinality(SingleLanes) = 7
    /\ TotalLanes = 31
    /\ \A l \in SingleLanes \cup {TransitionLanes, NoLanes, NoLane} :
          l >= 0 /\ BitLength(l) <= TotalLanes
    /\ IsSingleBit(nextTransitionLane)
    /\ BitAnd(nextTransitionLane, TransitionLanes) = nextTransitionLane
    /\ nextTransitionLane = TransitionLane1 <=> updates.transition % 16 = 0
    /\ BitCount(BitAnd(lanes, TransitionLanes))
          = IF updates.transition < 16 THEN updates.transition ELSE 16

\* all sixteen transition lanes have been handed out and the first one is
\* next again
TransitionLanesCycledWitness ==
    /\ updates.transition = 16
    /\ nextTransitionLane = TransitionLane1
    /\ BitAnd(lanes, TransitionLanes) = TransitionLanes

====
